---- MODULE Spec2Model ----
(***************************************************************************)
(* A model of the CHIP-8 interpreter of src/chip8.cpp (class Chip8).       *)
(*                                                                         *)
(* The state is the object's fields.  Every member of the class is public, *)
(* so each instruction handler OP_xxxx is an operation of its own: the     *)
(* caller stores an instruction word in the field `opcode` and invokes the *)
(* handler.  Cycle() is the fetch/dispatch/timer operation; it dispatches  *)
(* through the member `table`, which the constructor never fills (it fills *)
(* a local array of the same name).                                        *)
(*                                                                         *)
(* The constructor initialises only pc and the font bytes.  Every other    *)
(* field holds whatever its storage held: zero for an object of static     *)
(* storage duration, anything otherwise.  The initial predicates draw      *)
(* those fields from bounded sets.                                         *)
(*                                                                         *)
(* Undefined behaviour (an access outside an array, a call through a null  *)
(* member pointer) sets `ub` and yields one of several outcomes; the model *)
(* follows a run no further once `ub` is set.                              *)
(***************************************************************************)
EXTENDS Integers, Sequences, FiniteSets

START_ADDRESS == 512
FONTSET_START_ADDRESS == 80
FONTSET_SIZE == 80
VIDEO_HEIGHT == 32
VIDEO_WIDTH == 64
MEMORY_SIZE == 4096
NUM_REGISTERS == 16
STACK_SIZE == 16
NUM_KEYS == 16

\* A set pixel as the draw handler writes and tests it: 0xFFFFFFFF.  A cell of
\* `video` is a uint32_t; the model holds it as the 32-bit two's-complement
\* integer with the same bits, so 0xFFFFFFFF is -1 and v ^ 0xFFFFFFFF is -1 - v.
PIXEL_ON == -1

fontset ==
  << 240, 144, 144, 144, 240,
      32,  96,  32,  32, 112,
     240,  16, 240, 128, 240,
     240,  16, 240,  16, 240,
     144, 144, 240,  16,  16,
     240, 128, 240,  16, 240,
     240, 128, 240, 144, 240,
     240,  16,  32,  64,  64,
     240, 144, 240, 144, 240,
     240, 144, 240,  16, 240,
     240, 144, 240, 144, 144,
     224, 144, 224, 144, 224,
     240, 128, 128, 128, 240,
     224, 144, 144, 144, 224,
     240, 128, 240, 128, 240,
     240, 128, 240, 128, 128 >>

\* The fields of the object, then:
\*   handler      the public method invoked last ("Chip8": the constructor)
\*   ub           the run has executed undefined behaviour
\*   budget       the number of method invocations the run may still make
\*   pending      history: pc and sp at entry of each call not yet returned from
\*   videoBefore  history: the framebuffer at entry of the latest draw
VARIABLES registers, memory, index, pc, stack, sp, delayTimer, soundTimer,
          keypad, video, opcode, handler, ub, budget, pending, videoBefore

vars == << registers, memory, index, pc, stack, sp, delayTimer, soundTimer,
           keypad, video, opcode, handler, ub, budget, pending, videoBefore >>

----------------------------------------------------------------------------
\* Operand fields of the instruction word, as every handler extracts them.

\* (opcode & 0x0F00u) >> 8u
Vx(op) == (op \div 256) % 16

\* (opcode & 0x00F0u) >> 4u
Vy(op) == (op \div 16) % 16

\* opcode & 0x00FFu
Byte(op) == op % 256

\* opcode & 0x0FFFu
Address(op) == op % 4096

\* opcode & 0x000Fu
Nibble(op) == op % 16

\* Conversion to uint8_t / uint16_t.
U8(v) == v % 256
U16(v) == v % 65536

----------------------------------------------------------------------------
\* The object after Chip8::Chip8(): pc and the font bytes are set, every
\* other field keeps the content of its storage, given here as parameters.
Constructed(regs, mem, idx, stk, spv, dt, st, kp, vid, opc) ==
  /\ registers = regs
  /\ memory = [a \in 0..(MEMORY_SIZE - 1) |->
                 IF a >= FONTSET_START_ADDRESS /\ a < FONTSET_START_ADDRESS + FONTSET_SIZE
                   THEN fontset[a - FONTSET_START_ADDRESS + 1]
                   ELSE mem[a]]
  /\ index = idx
  /\ pc = START_ADDRESS
  /\ stack = stk
  /\ sp = spv
  /\ delayTimer = dt
  /\ soundTimer = st
  /\ keypad = kp
  /\ video = vid
  /\ opcode = opc
  /\ handler = "Chip8"
  /\ ub = FALSE
  /\ pending = << >>
  /\ videoBefore = vid

ZeroRegisters == [i \in 0..(NUM_REGISTERS - 1) |-> 0]
ZeroMemory == [a \in 0..(MEMORY_SIZE - 1) |-> 0]
ZeroStack == [i \in 0..(STACK_SIZE - 1) |-> 0]
ZeroKeypad == [i \in 0..(NUM_KEYS - 1) |-> 0]
ZeroVideo == [c \in 0..(VIDEO_WIDTH * VIDEO_HEIGHT - 1) |-> 0]

\* A public method is invoked: the run has executed no undefined behaviour.
Invoke(name) ==
  /\ ~ub
  /\ budget > 0
  /\ budget' = budget - 1
  /\ handler' = name

\* A handler is invoked by a caller that has stored op in the field opcode.
Enter(name, op) ==
  /\ Invoke(name)
  /\ opcode' = op

----------------------------------------------------------------------------
\* 8xy4: ADD Vx, Vy
OP_8xy4(op) ==
  /\ Enter("OP_8xy4", op)
  /\ LET x == Vx(op)
         y == Vy(op)
         result == U16(registers[x] + registers[y])
         flagged == [registers EXCEPT ![15] = IF result > 255 THEN 1 ELSE 0]
     IN registers' = [flagged EXCEPT ![x] = U8(flagged[x] + flagged[y])]
  /\ UNCHANGED << memory, index, pc, stack, sp, delayTimer, soundTimer, keypad, video, ub, pending, videoBefore >>

\* 8xy5: SUB Vx, Vy
OP_8xy5(op) ==
  /\ Enter("OP_8xy5", op)
  /\ LET x == Vx(op)
         y == Vy(op)
         flagged == [registers EXCEPT ![15] = IF registers[x] > registers[y] THEN 1 ELSE 0]
     IN registers' = [flagged EXCEPT ![x] = U8(flagged[x] - flagged[y])]
  /\ UNCHANGED << memory, index, pc, stack, sp, delayTimer, soundTimer, keypad, video, ub, pending, videoBefore >>

\* 8xy6: SHR Vx, Vy
OP_8xy6(op) ==
  /\ Enter("OP_8xy6", op)
  /\ LET x == Vx(op)
         y == Vy(op)
         flagged == [registers EXCEPT ![15] = registers[y] % 2]
     IN registers' = [flagged EXCEPT ![x] = flagged[y] \div 2]
  /\ UNCHANGED << memory, index, pc, stack, sp, delayTimer, soundTimer, keypad, video, ub, pending, videoBefore >>

\* 8xy7: SUBN Vx, Vy
OP_8xy7(op) ==
  /\ Enter("OP_8xy7", op)
  /\ LET x == Vx(op)
         y == Vy(op)
         flagged == [registers EXCEPT ![15] = IF registers[y] > registers[x] THEN 1 ELSE 0]
     IN registers' = [flagged EXCEPT ![x] = U8(flagged[y] - flagged[x])]
  /\ UNCHANGED << memory, index, pc, stack, sp, delayTimer, soundTimer, keypad, video, ub, pending, videoBefore >>

\* 8xyE: SHL Vx, Vy.  (registers[Vy] & 0xF0u) >> 7u keeps bit 7 alone.
OP_8xyE(op) ==
  /\ Enter("OP_8xyE", op)
  /\ LET x == Vx(op)
         y == Vy(op)
         flagged == [registers EXCEPT ![15] = ((registers[y] \div 16) * 16) \div 128]
     IN registers' = [flagged EXCEPT ![x] = U8(flagged[y] * 2)]
  /\ UNCHANGED << memory, index, pc, stack, sp, delayTimer, soundTimer, keypad, video, ub, pending, videoBefore >>

----------------------------------------------------------------------------
\* The arithmetic handlers, from every combination of operand values.

\* Values the operand registers hold initially.
RegVals == {0, 1, 100, 128, 200, 255}

\* Register indices used as Vx and Vy.
RegIdx == {0, 1, 15}

MaxALUSteps == 1

\* 0x8000 | x << 8 | y << 4 | n
AluWord(x, y, n) == 32768 + x * 256 + y * 16 + n

InitALU ==
  /\ \E a \in RegVals, b \in RegVals, f \in RegVals :
       Constructed([i \in 0..(NUM_REGISTERS - 1) |->
                      IF i = 0 THEN a ELSE IF i = 1 THEN b ELSE IF i = 15 THEN f ELSE 0],
                   ZeroMemory, 0, ZeroStack, 0, 0, 0, ZeroKeypad, ZeroVideo, 0)
  /\ budget = MaxALUSteps

NextALU ==
  \/ \E x \in RegIdx, y \in RegIdx : OP_8xy4(AluWord(x, y, 4))
  \/ \E x \in RegIdx, y \in RegIdx : OP_8xy5(AluWord(x, y, 5))
  \/ \E x \in RegIdx, y \in RegIdx : OP_8xy6(AluWord(x, y, 6))
  \/ \E x \in RegIdx, y \in RegIdx : OP_8xy7(AluWord(x, y, 7))
  \/ \E x \in RegIdx, y \in RegIdx : OP_8xyE(AluWord(x, y, 14))

SpecALU == InitALU /\ [][NextALU]_vars

\* C3: after add-reg Vx,Vy register 15 is 1 if the sum of the values Vx and Vy
\* held before the instruction exceeds 255 and 0 otherwise, for every x and y
\* (15 included); for x # 15 register x is that sum mod 256.
C3_AddRegCarryAndSum ==
  [][handler' = "OP_8xy4" =>
       LET x == Vx(opcode')
           y == Vy(opcode')
           sum == registers[x] + registers[y]
       IN /\ registers'[15] = (IF sum > 255 THEN 1 ELSE 0)
          /\ (x # 15 => registers'[x] = sum % 256)]_vars

\* C4: sub Vx,Vy sets register 15 to 1 iff Vx > Vy held before the instruction
\* and subn Vx,Vy iff Vy > Vx; for x # 15 register x ends as the difference mod
\* 256 of the values held before the instruction; also when x or y is 15.
C4_SubBorrowAndDifference ==
  [][/\ handler' = "OP_8xy5" =>
          LET x == Vx(opcode')
              y == Vy(opcode')
          IN /\ registers'[15] = (IF registers[x] > registers[y] THEN 1 ELSE 0)
             /\ (x # 15 => registers'[x] = (registers[x] - registers[y]) % 256)
     /\ handler' = "OP_8xy7" =>
          LET x == Vx(opcode')
              y == Vy(opcode')
          IN /\ registers'[15] = (IF registers[y] > registers[x] THEN 1 ELSE 0)
             /\ (x # 15 => registers'[x] = (registers[y] - registers[x]) % 256)]_vars

\* C5: after shr Vx,Vy register 15 is bit 0 of the value Vy held before the
\* instruction and after shl Vx,Vy it is bit 7 of that value, for every x and y
\* (x = y, x = 15, y = 15 included); for x # 15 register x is that value
\* shifted right resp. left by one, kept to 8 bits.
C5_ShiftFlagAndResult ==
  [][/\ handler' = "OP_8xy6" =>
          LET x == Vx(opcode')
              y == Vy(opcode')
          IN /\ registers'[15] = registers[y] % 2
             /\ (x # 15 => registers'[x] = registers[y] \div 2)
     /\ handler' = "OP_8xyE" =>
          LET x == Vx(opcode')
              y == Vy(opcode')
          IN /\ registers'[15] = registers[y] \div 128
             /\ (x # 15 => registers'[x] = (registers[y] * 2) % 256)]_vars

----------------------------------------------------------------------------
\* The call stack.

\* The 16 bits an access to stack[i], 16 <= i, meets under the layout the
\* declaration order gives (little-endian, natural alignment): stack is
\* followed by sp, delayTimer, soundTimer, keypad[16], one byte of padding and
\* video.  spv is the value sp holds at the access; pad is the padding byte.
LayoutWord(i, spv, pad) ==
  IF i = 16 THEN spv + 256 * delayTimer
  ELSE IF i = 17 THEN soundTimer + 256 * keypad[0]
  ELSE IF i < 25 THEN keypad[2 * (i - 18) + 1] + 256 * keypad[2 * (i - 18) + 2]
  ELSE IF i = 25 THEN keypad[15] + 256 * pad
  ELSE LET cell == video[(i - 26) \div 2]
       IN IF (i - 26) % 2 = 0 THEN cell % 65536 ELSE (cell \div 65536) % 65536

\* Other values a read outside the array may give.
OutOfRangeWords == {0, 65535}

\* 00EE: RET
OP_00EE(op) ==
  /\ Enter("OP_00EE", op)
  /\ LET top == U8(sp - 1)
     IN /\ sp' = top
        /\ IF top < STACK_SIZE
             THEN /\ pc' = stack[top]
                  /\ ub' = ub
             ELSE /\ pc' \in {LayoutWord(top, top, 0)} \cup OutOfRangeWords
                  /\ ub' = TRUE
  /\ pending' = IF pending = << >> THEN pending ELSE SubSeq(pending, 1, Len(pending) - 1)
  /\ UNCHANGED << registers, memory, index, stack, delayTimer, soundTimer, keypad, video, videoBefore >>

\* 2nnn: CALL addr.  pc is assigned the target before it is stored.  With
\* sp = 16 the store meets sp and delayTimer: the increment then acts on the
\* stored byte, or on the value of sp read before the store, or the store is
\* dropped.  (With sp > 16 at entry the store meets soundTimer, keypad or
\* video; sp starts within 0..16 and a run ends at its first undefined step,
\* so no run enters with sp > 16.)
OP_2nnn(op) ==
  /\ Enter("OP_2nnn", op)
  /\ LET address == Address(op)
     IN /\ pc' = address
        /\ IF sp < STACK_SIZE
             THEN /\ stack' = [stack EXCEPT ![sp] = address]
                  /\ sp' = U8(sp + 1)
                  /\ UNCHANGED << delayTimer, ub >>
             ELSE /\ stack' = stack
                  /\ ub' = TRUE
                  /\ \/ sp' = U8((address % 256) + 1) /\ delayTimer' = address \div 256
                     \/ sp' = U8(sp + 1) /\ delayTimer' = address \div 256
                     \/ sp' = U8(sp + 1) /\ delayTimer' = delayTimer
  /\ pending' = Append(pending, [ret |-> pc, sp |-> sp])
  /\ UNCHANGED << registers, memory, index, soundTimer, keypad, video, videoBefore >>

\* Addresses called.
CallTargets == {752}

\* Values delayTimer holds initially.
DelayInit == {0, 9}

\* Enough invocations for 17 nested calls.
MaxStackSteps == 18

InitStack ==
  /\ \E dt \in DelayInit :
       Constructed(ZeroRegisters, ZeroMemory, 0, ZeroStack, 0, dt, 0, ZeroKeypad, ZeroVideo, 0)
  /\ budget = MaxStackSteps

NextStack ==
  \/ \E nnn \in CallTargets : OP_2nnn(8192 + nnn)
  \/ OP_00EE(238)

SpecStack == InitStack /\ [][NextStack]_vars

\* C1: a call executed with fewer than 16 pending calls and later its matching
\* return leave pc at the value it had when the call handler was entered (the
\* address after the call instruction, fetch having advanced pc) and sp at its
\* value before the call.
C1_CallReturnRoundTrip ==
  [][(handler' = "OP_00EE" /\ pending # << >>) =>
       /\ pc' = pending[Len(pending)].ret
       /\ sp' = pending[Len(pending)].sp]_vars

\* C2: sp stays within 0..16 and no call or return accesses a stack slot
\* outside 0..15; a call on a full stack and a return on an empty one leave
\* every field outside the stack as it was.
C2_StackAccessInBounds ==
  [][handler' \in {"OP_2nnn", "OP_00EE"} =>
       /\ sp' \in 0..STACK_SIZE
       /\ ~ub'
       /\ << registers', memory', index', delayTimer', soundTimer', keypad', video' >>
            = << registers, memory, index, delayTimer, soundTimer, keypad, video >>]_vars

----------------------------------------------------------------------------
\* The framebuffer.

\* 00E0: CLS.  memset(video, 0, VIDEO_HEIGHT * VIDEO_WIDTH) zeroes that many
\* bytes, and a cell is a uint32_t of 4 bytes.
OP_00E0(op) ==
  /\ Enter("OP_00E0", op)
  /\ video' = [c \in 0..(VIDEO_WIDTH * VIDEO_HEIGHT - 1) |->
                 IF 4 * c + 3 < VIDEO_HEIGHT * VIDEO_WIDTH THEN 0 ELSE video[c]]
  /\ UNCHANGED << registers, memory, index, pc, stack, sp, delayTimer, soundTimer, keypad, ub, pending, videoBefore >>

\* spriteByte & (0x80u >> col): nonzero iff bit col, counted from the most
\* significant, is set.
SpriteBit(spriteByte, col) == (spriteByte \div (2 ^ (7 - col))) % 2

\* v ^ 0xFFFFFFFF on a cell.
Toggle(v) == -1 - v

\* Contents an access outside memory or video may meet.
OutOfRangeBytes == {0, 255}
OutOfRangeCells == {0, PIXEL_ON}

\* The two loops of OP_Dxyn from iteration k = 8 * row + col on: the cell
\* addressed is video[(yPos + row) * VIDEO_WIDTH] for every col, it is tested
\* when the sprite bit is set and toggled in every iteration.  A row with
\* index + row outside memory reads byteOut; a cell outside video holds cellOut
\* when its row starts.  The result is the framebuffer and register 15.
RECURSIVE DrawLoop(_, _, _, _, _, _, _, _, _)
DrawLoop(k, height, yPos, mem, idx, vid, vf, byteOut, cellOut) ==
  IF k >= 8 * height
    THEN [video |-> vid, vf |-> vf]
    ELSE LET row == k \div 8
             col == k % 8
             spriteByte == IF idx + row < MEMORY_SIZE THEN mem[idx + row] ELSE byteOut
             spritePixel == SpriteBit(spriteByte, col)
             cell == (yPos + row) * VIDEO_WIDTH
             inside == cell < VIDEO_WIDTH * VIDEO_HEIGHT
             screenPixel == IF inside THEN vid[cell]
                            ELSE IF col % 2 = 0 THEN cellOut ELSE Toggle(cellOut)
             collision == spritePixel # 0 /\ screenPixel = PIXEL_ON
         IN DrawLoop(k + 1, height, yPos, mem, idx,
                     IF inside THEN [vid EXCEPT ![cell] = Toggle(screenPixel)] ELSE vid,
                     IF collision THEN 1 ELSE vf, byteOut, cellOut)

\* Dxyn: DRW Vx, Vy, nibble
OP_Dxyn(op) ==
  /\ Enter("OP_Dxyn", op)
  /\ LET height == Nibble(op)
         xPos == registers[Vx(op)] % VIDEO_WIDTH
         yPos == registers[Vy(op)] % VIDEO_HEIGHT
         outside == height > 0 /\ \/ index + height - 1 >= MEMORY_SIZE
                                  \/ yPos + height - 1 >= VIDEO_HEIGHT
     IN \E byteOut \in OutOfRangeBytes, cellOut \in OutOfRangeCells :
          LET drawn == DrawLoop(0, height, yPos, memory, index, video, 0, byteOut, cellOut)
          IN /\ video' = drawn.video
             /\ registers' = [registers EXCEPT ![15] = drawn.vf]
             /\ ub' = outside
  /\ videoBefore' = video
  /\ UNCHANGED << memory, index, pc, stack, sp, delayTimer, soundTimer, keypad, pending >>

\* Initial positions (registers 0 and 1), sprite addresses (the glyphs 0 and 1
\* of the font) and framebuffer contents: every cell clear, every cell set,
\* and only the cells of column 0 set.
DrawX == {0, 60}
DrawY == {0, 30}
DrawIndex == {80, 85}
DrawVideo == {"clear", "set", "column0"}
DrawHeights == {0, 1, 5}

\* Two draws in a row.
MaxDrawSteps == 2

InitDraw ==
  /\ \E x \in DrawX, y \in DrawY, i \in DrawIndex, v \in DrawVideo :
       Constructed([r \in 0..(NUM_REGISTERS - 1) |-> IF r = 0 THEN x ELSE IF r = 1 THEN y ELSE 0],
                   ZeroMemory, i, ZeroStack, 0, 0, 0, ZeroKeypad,
                   [c \in 0..(VIDEO_WIDTH * VIDEO_HEIGHT - 1) |->
                      IF v = "set" \/ (v = "column0" /\ c % VIDEO_WIDTH = 0) THEN PIXEL_ON ELSE 0],
                   0)
  /\ budget = MaxDrawSteps

NextDraw ==
  \/ \E n \in DrawHeights : OP_Dxyn(53264 + n)
  \/ OP_00E0(224)

SpecDraw == InitDraw /\ [][NextDraw]_vars

\* The cell of column x, row y.
CellAt(x, y) == y * VIDEO_WIDTH + x

\* The sprite bit at (row, col) of a draw from the state's index and memory.
SpriteBitAt(row, col) == SpriteBit(memory[index + row], col)

\* The cell the bit (row, col) of a draw by op targets:
\* ((Vx + col) mod 64, (Vy + row) mod 32).
TargetCell(op, row, col) ==
  CellAt((registers[Vx(op)] + col) % VIDEO_WIDTH, (registers[Vy(op)] + row) % VIDEO_HEIGHT)

\* C6: after clear-screen every one of the 2048 cells is clear, and registers,
\* memory, index register, stack and keypad are as before.
C6_ClearScreenClearsAll ==
  [][handler' = "OP_00E0" =>
       /\ \A c \in 0..(VIDEO_WIDTH * VIDEO_HEIGHT - 1) : video'[c] = 0
       /\ << registers', memory', index', stack', sp', keypad' >>
            = << registers, memory, index, stack, sp, keypad >>]_vars

\* C7: the same draw executed twice in a row, with index, memory and the
\* position registers unchanged, restores the framebuffer to its content before
\* the first draw; one draw of a sprite with a set bit changes the framebuffer.
C7_DrawTwiceRestores ==
  [][handler' = "OP_Dxyn" =>
       /\ (/\ handler = "OP_Dxyn"
           /\ opcode' = opcode
           /\ Vx(opcode) # 15
           /\ Vy(opcode) # 15) => video' = videoBefore
       /\ (\E row \in 0..(Nibble(opcode') - 1) : memory[index + row] # 0) => video' # video]_vars

\* C8: the cells a draw changes are exactly the cells ((Vx + col) mod 64,
\* (Vy + row) mod 32) whose sprite bit (row, col) is set, and no cell outside
\* 0..2047 is accessed.
C8_DrawChangesTargetCells ==
  [][handler' = "OP_Dxyn" =>
       /\ ~ub'
       /\ \A c \in 0..(VIDEO_WIDTH * VIDEO_HEIGHT - 1) :
            (video'[c] # video[c]) <=>
              \E row \in 0..(Nibble(opcode') - 1), col \in 0..7 :
                SpriteBitAt(row, col) = 1 /\ TargetCell(opcode', row, col) = c]_vars

\* C9: after a draw register 15 is 1 iff for some (row, col) the sprite bit is
\* set and its target cell was set when toggled, and 0 otherwise, whatever
\* register 15 held before.
C9_DrawCollisionFlag ==
  [][handler' = "OP_Dxyn" =>
       registers'[15] =
         (IF \E row \in 0..(Nibble(opcode') - 1), col \in 0..7 :
               SpriteBitAt(row, col) = 1
                 /\ video[TargetCell(opcode', row, col)] = PIXEL_ON
            THEN 1 ELSE 0)]_vars

----------------------------------------------------------------------------
\* Loading a program and running cycles.

\* The member `table` that Cycle indexes.  Its initialiser (line 644) sets
\* entry 0 to OP_NULL and leaves the other 15 entries null; the constructor's
\* assignments (lines 81-96) go to the local array `table` declared at line 79.
table == [i \in 0..15 |-> IF i = 0 THEN "OP_NULL" ELSE "null"]

\* LoadROM: the size bytes of the file go to memory[START_ADDRESS + i]; nothing
\* happens when the file does not open.  Bytes past the end of memory meet the
\* fields declared after it, index and then pc (a file of more than
\* MEMORY_SIZE - START_ADDRESS + 4 bytes would go on into stack; the model
\* loads no file that long).
LoadROM(rom, opened) ==
  /\ Invoke("LoadROM")
  /\ LET size == Len(rom)
         room == MEMORY_SIZE - START_ADDRESS
         past(i, old) == IF size >= room + i THEN U8(rom[room + i]) ELSE old
     IN IF opened
          THEN /\ memory' = [a \in 0..(MEMORY_SIZE - 1) |->
                               IF a >= START_ADDRESS /\ a - START_ADDRESS < size
                                 THEN U8(rom[a - START_ADDRESS + 1])
                                 ELSE memory[a]]
               /\ index' = past(1, index % 256) + 256 * past(2, index \div 256)
               /\ pc' = past(3, pc % 256) + 256 * past(4, pc \div 256)
               /\ ub' = (size > room)
          ELSE UNCHANGED << memory, index, pc, ub >>
  /\ UNCHANGED << registers, stack, sp, delayTimer, soundTimer, keypad, video, opcode, pending, videoBefore >>

\* A timer after the end of a cycle.
Tick(timer) == IF timer > 0 THEN timer - 1 ELSE timer

\* Cycle: fetch, advance pc, call through table[opcode >> 12], tick the
\* timers.  Entry 0 is OP_NULL, which does nothing.  The call through a null
\* entry is undefined: the process ends at the call, or the call comes back
\* having run no handler and the timers tick.
Cycle ==
  /\ Invoke("Cycle")
  /\ \E byteOut \in OutOfRangeBytes, ends \in BOOLEAN :
       LET high == IF pc < MEMORY_SIZE THEN memory[pc] ELSE byteOut
           low == IF pc + 1 < MEMORY_SIZE THEN memory[pc + 1] ELSE byteOut
           word == high * 256 + low
           entry == table[word \div 4096]
       IN /\ opcode' = word
          /\ pc' = U16(pc + 2)
          /\ ub' = (pc + 1 >= MEMORY_SIZE \/ entry = "null")
          /\ IF entry = "null" /\ ends
               THEN UNCHANGED << delayTimer, soundTimer >>
               ELSE /\ delayTimer' = Tick(delayTimer)
                    /\ soundTimer' = Tick(soundTimer)
  /\ UNCHANGED << registers, memory, index, stack, sp, keypad, video, pending, videoBefore >>

\* 6xkk: LD Vx, byte
OP_6xkk(op) ==
  /\ Enter("OP_6xkk", op)
  /\ registers' = [registers EXCEPT ![Vx(op)] = Byte(op)]
  /\ UNCHANGED << memory, index, pc, stack, sp, delayTimer, soundTimer, keypad, video, ub, pending, videoBefore >>

\* A program image two bytes longer than memory has room for from
\* START_ADDRESS on.
LongRom == [i \in 1..(MEMORY_SIZE - START_ADDRESS + 2) |-> 1]

\* Program images: 6A02 600A; 0000 6A02; 00E0 0000 6107; 0001; 8018; 1234;
\* F015; F00A; the long one.
Roms ==
  { << 106, 2, 96, 10 >>, << 0, 0, 106, 2 >>, << 0, 224, 0, 0, 97, 7 >>,
    << 0, 1 >>, << 128, 24 >>, << 18, 52 >>, << 240, 21 >>, << 240, 10 >>, LongRom }

\* Immediate loads invoked directly.
LoadWords == {24586, 27138}

MaxCycleSteps == 4

InitCycle ==
  /\ \E dt \in DelayInit :
       Constructed(ZeroRegisters, ZeroMemory, 0, ZeroStack, 0, dt, 0, ZeroKeypad, ZeroVideo, 0)
  /\ budget = MaxCycleSteps

NextCycle ==
  \/ \E rom \in Roms, opened \in BOOLEAN : LoadROM(rom, opened)
  \/ Cycle
  \/ \E op \in LoadWords : OP_6xkk(op)

SpecCycle == InitCycle /\ [][NextCycle]_vars

\* C10: a step whose pc is at a load-imm word 6xkk of the loaded program
\* fetches the word big-endian from memory[pc], memory[pc + 1], advances pc by
\* 2 and leaves kk in register x and every other register as it was; so the
\* program 6A02 600A ends, after two steps, with registers[10] = 2,
\* registers[0] = 10 and pc = 0x204.
C10_StepRunsLoadImm ==
  [][(handler' = "Cycle" /\ pc + 1 < MEMORY_SIZE /\ memory[pc] \div 16 = 6) =>
       /\ opcode' = memory[pc] * 256 + memory[pc + 1]
       /\ pc' = pc + 2
       /\ registers' = [registers EXCEPT ![memory[pc] % 16] = memory[pc + 1]]]_vars

----------------------------------------------------------------------------
\* The handlers that use memory through the index register.

\* memory[a] = v.  A store past the end of memory leaves memory as it is; it
\* meets the fields declared after it (see IndexPast).
MemStore(mem, a, v) == IF a < MEMORY_SIZE THEN [mem EXCEPT ![a] = v] ELSE mem

\* The index register after stores of the bytes low to memory[MEMORY_SIZE] and
\* high to memory[MEMORY_SIZE + 1], the storage of index (a value of -1: no
\* such store).
IndexPast(low, high) ==
  (IF low >= 0 THEN low ELSE index % 256) + 256 * (IF high >= 0 THEN high ELSE index \div 256)

\* The three stores with the digits in the opposite order.
OP_Fx33_Reversed(op) ==
  /\ Enter("OP_Fx33", op)
  /\ LET value == registers[Vx(op)]
     IN memory' = MemStore(MemStore(MemStore(memory, index, value % 10),
                                    index + 1, (value \div 10) % 10),
                           index + 2, ((value \div 10) \div 10) % 10)
  /\ ub' = (index + 2 >= MEMORY_SIZE)
  /\ UNCHANGED << registers, index, pc, stack, sp, delayTimer, soundTimer, keypad, video, pending, videoBefore >>

\* Fx33: LD B, Vx.  The three stores in the handler's order: ones, tens,
\* hundreds, each digit taken from the value divided so far.
OP_Fx33(op) ==
  /\ Enter("OP_Fx33", op)
  /\ LET value == registers[Vx(op)]
         ones == value % 10
         tens == (value \div 10) % 10
         hundreds == ((value \div 10) \div 10) % 10
         at(a) == IF index + 2 = a THEN ones
                  ELSE IF index + 1 = a THEN tens
                  ELSE IF index = a THEN hundreds ELSE -1
     IN /\ memory' = MemStore(MemStore(MemStore(memory, index + 2, ones), index + 1, tens),
                              index, hundreds)
        /\ IF index + 2 < MEMORY_SIZE
             THEN UNCHANGED << index, ub >>
             ELSE /\ ub' = TRUE
                  /\ index' \in {index, IndexPast(at(MEMORY_SIZE), at(MEMORY_SIZE + 1))}
  /\ UNCHANGED << registers, pc, stack, sp, delayTimer, soundTimer, keypad, video, pending, videoBefore >>

\* Fx29: LD F, Vx.  The handler adds to index (index += ...).
OP_Fx29(op) ==
  /\ Enter("OP_Fx29", op)
  /\ LET digit == registers[Vx(op)]
     IN index' = U16(index + FONTSET_START_ADDRESS + 5 * digit)
  /\ UNCHANGED << registers, memory, pc, stack, sp, delayTimer, soundTimer, keypad, video, ub, pending, videoBefore >>

\* The loop of OP_Fx55 from reg on: memory[index + reg] = registers[reg].
RECURSIVE StoreLoop(_, _, _)
StoreLoop(reg, last, mem) ==
  IF reg > last THEN mem
  ELSE StoreLoop(reg + 1, last, MemStore(mem, index + reg, registers[reg]))

\* The loop with reg < Vx as its condition.
OP_Fx55_Exclusive(op) ==
  /\ Enter("OP_Fx55", op)
  /\ memory' = StoreLoop(0, Vx(op) - 1, memory)
  /\ ub' = (index + Vx(op) >= MEMORY_SIZE)
  /\ UNCHANGED << registers, index, pc, stack, sp, delayTimer, soundTimer, keypad, video, pending, videoBefore >>

\* Fx55: LD [I], Vx
OP_Fx55(op) ==
  /\ Enter("OP_Fx55", op)
  /\ LET x == Vx(op)
         at(a) == IF a >= index /\ a - index <= x THEN registers[a - index] ELSE -1
     IN /\ memory' = StoreLoop(0, x, memory)
        /\ IF index + x < MEMORY_SIZE
             THEN UNCHANGED << index, ub >>
             ELSE /\ ub' = TRUE
                  /\ index' \in {index, IndexPast(at(MEMORY_SIZE), at(MEMORY_SIZE + 1))}
  /\ UNCHANGED << registers, pc, stack, sp, delayTimer, soundTimer, keypad, video, pending, videoBefore >>

\* The loop of OP_Fx65 from reg on: registers[reg] = memory[index + reg]; a
\* read past the end of memory gives byteOut.
RECURSIVE LoadLoop(_, _, _, _)
LoadLoop(reg, last, regs, byteOut) ==
  IF reg > last THEN regs
  ELSE LoadLoop(reg + 1, last,
                [regs EXCEPT ![reg] = IF index + reg < MEMORY_SIZE THEN memory[index + reg]
                                      ELSE byteOut],
                byteOut)

\* Fx65: LD Vx, [I]
OP_Fx65(op) ==
  /\ Enter("OP_Fx65", op)
  /\ \E byteOut \in OutOfRangeBytes : registers' = LoadLoop(0, Vx(op), registers, byteOut)
  /\ ub' = (index + Vx(op) >= MEMORY_SIZE)
  /\ UNCHANGED << memory, index, pc, stack, sp, delayTimer, soundTimer, keypad, video, pending, videoBefore >>

\* Initial values: register r holds (v + r) mod 256 for a v of MemVals, the
\* index register a value of MemIndex (0, the font, free memory, the last
\* address with index + 2 inside memory, the one after it).
MemVals == {0, 10, 234, 255}
MemIndex == {0, 80, 768, 4093, 4094}
MemIdx == {0, 3, 15}

\* A store followed by a load.
MaxMemSteps == 2

\* 0xF000 | x << 8 | kk
MemWord(x, kk) == 61440 + x * 256 + kk

InitMem ==
  /\ \E v \in MemVals, i \in MemIndex :
       Constructed([r \in 0..(NUM_REGISTERS - 1) |-> (v + r) % 256],
                   ZeroMemory, i, ZeroStack, 0, 0, 0, ZeroKeypad, ZeroVideo, 0)
  /\ budget = MaxMemSteps

NextMem ==
  \/ \E x \in MemIdx : OP_Fx33(MemWord(x, 51))
  \/ \E x \in MemIdx : OP_Fx29(MemWord(x, 41))
  \/ \E x \in MemIdx : OP_Fx55(MemWord(x, 85))
  \/ \E x \in MemIdx : OP_Fx65(MemWord(x, 101))

SpecMem == InitMem /\ [][NextMem]_vars

\* C11: with index + 2 inside memory, bcd Vx writes the hundreds digit of Vx
\* to memory[I], the tens digit to memory[I + 1] and the ones digit to
\* memory[I + 2], and leaves Vx, I and every other byte of memory as they were.
C11_BcdDigits ==
  [][(handler' = "OP_Fx33" /\ index + 2 < MEMORY_SIZE) =>
       LET v == registers[Vx(opcode')]
       IN /\ memory' = [a \in 0..(MEMORY_SIZE - 1) |->
                          IF a = index THEN v \div 100
                          ELSE IF a = index + 1 THEN (v \div 10) % 10
                          ELSE IF a = index + 2 THEN v % 10
                          ELSE memory[a]]
          /\ registers' = registers
          /\ index' = index
          /\ ~ub']_vars

\* bcd has run on the value 234 and memory holds 2, 3, 4 at I.
C11_Bcd234Written ==
  /\ handler = "OP_Fx33"
  /\ index + 2 < MEMORY_SIZE
  /\ registers[Vx(opcode)] = 234
  /\ memory[index] = 2
  /\ memory[index + 1] = 3
  /\ memory[index + 2] = 4

\* C12: font-char Vx with a digit d = Vx in 0..15 sets I to exactly
\* FONTSET_START_ADDRESS + 5 * d, whatever I held before, and the five bytes
\* memory[I .. I + 4] are then the glyph of d in the font table.
C12_FontCharSetsIndex ==
  [][(handler' = "OP_Fx29" /\ registers[Vx(opcode')] <= 15) =>
       LET d == registers[Vx(opcode')]
       IN /\ index' = FONTSET_START_ADDRESS + 5 * d
          /\ \A k \in 0..4 : memory'[index' + k] = fontset[5 * d + k + 1]]_vars

\* C19: with index + x inside memory, store-block Vx writes
\* memory[I + r] = registers[r] for exactly the r in 0..x and changes no other
\* byte and no register; load-block Vx sets registers[r] = memory[I + r] for
\* the r in 0..x and changes no other register and no memory; both leave I as
\* it was; a load-block right after a store-block with the same x leaves
\* registers 0..x with the stored values.
C19_StoreLoadBlock ==
  [][LET x == Vx(opcode')
         inside == index + x < MEMORY_SIZE
     IN /\ (handler' = "OP_Fx55" /\ inside) =>
             /\ memory' = [a \in 0..(MEMORY_SIZE - 1) |->
                             IF a >= index /\ a <= index + x THEN registers[a - index]
                             ELSE memory[a]]
             /\ registers' = registers
             /\ index' = index
             /\ ~ub'
        /\ (handler' = "OP_Fx65" /\ inside) =>
             /\ registers' = [r \in 0..(NUM_REGISTERS - 1) |->
                                IF r <= x THEN memory[index + r] ELSE registers[r]]
             /\ memory' = memory
             /\ index' = index
             /\ ~ub'
        /\ (handler = "OP_Fx55" /\ handler' = "OP_Fx65" /\ Vx(opcode) = x /\ inside) =>
             \A r \in 0..x : registers'[r] = registers[r] /\ registers'[r] = memory[index + r]]_vars

\* store-block V3 and then load-block V3 have run at I = 0x300: the four bytes
\* at I are registers 0..3 (234..237), the byte after them is untouched.
C19_StoredThenLoaded ==
  /\ handler = "OP_Fx65"
  /\ Vx(opcode) = 3
  /\ index = 768
  /\ registers[0] = 234
  /\ \A r \in 0..3 : memory[index + r] = registers[r]
  /\ memory[index + 4] = 0

\* C13: a load of a program image longer than MEMORY_SIZE - START_ADDRESS
\* (3584) bytes fails and leaves memory unchanged; a load of a shorter one
\* copies the bytes to memory[START_ADDRESS ..] and changes no other byte; the
\* load touches nothing but memory.
C13_LoadChecksSize ==
  [][handler' = "LoadROM" =>
       /\ ~ub'
       /\ index' = index
       /\ pc' = pc
       /\ \/ memory' = memory
          \/ \E rom \in Roms :
               /\ Len(rom) <= MEMORY_SIZE - START_ADDRESS
               /\ memory' = [a \in 0..(MEMORY_SIZE - 1) |->
                               IF a >= START_ADDRESS /\ a < START_ADDRESS + Len(rom)
                                 THEN rom[a - START_ADDRESS + 1]
                                 ELSE memory[a]]]_vars

\* The word Cycle fetches at pc.
WordAt(a) == memory[a] * 256 + memory[a + 1]

\* The words the constructor's tables give a handler: by the first nibble,
\* and for 0, 8, E by the last nibble, for F by the last byte.
HasHandler(word) ==
  LET first == word \div 4096
  IN IF first = 0 THEN Nibble(word) \in {0, 14}
     ELSE IF first = 8 THEN Nibble(word) \in (0..7) \cup {14}
     ELSE IF first = 14 THEN Nibble(word) \in {1, 14}
     ELSE IF first = 15 THEN Byte(word) \in {7, 10, 21, 24, 30, 41, 51, 85, 101}
     ELSE TRUE

\* C14: a step on a word that has no handler (0x0nn1, 0x8xy8, 0xEx00, 0xFx00,
\* 0xFxFF, ...) is a no-op that consumes the cycle: pc advances by 2, the
\* timers tick, everything else is unchanged, and the dispatch invokes nothing
\* undefined.
C14_UnknownWordIsNoOp ==
  [][(handler' = "Cycle" /\ pc + 1 < MEMORY_SIZE /\ ~HasHandler(WordAt(pc))) =>
       /\ ~ub'
       /\ pc' = pc + 2
       /\ delayTimer' = Tick(delayTimer)
       /\ soundTimer' = Tick(soundTimer)
       /\ UNCHANGED << registers, memory, index, stack, sp, keypad, video >>]_vars

\* C16: every step ends with each timer one lower if it was above 0 after the
\* instruction and at 0 otherwise: a step on set-delay Vx (Fx15) ends with
\* delayTimer = Tick(Vx), one on set-sound Vx (Fx18) with soundTimer =
\* Tick(Vx), any other step with the timers ticked from their old values.
C16_TimersTickEveryStep ==
  [][(handler' = "Cycle" /\ pc + 1 < MEMORY_SIZE) =>
       LET word == WordAt(pc)
           sets(kk) == word \div 4096 = 15 /\ Byte(word) = kk
       IN /\ delayTimer' = Tick(IF sets(21) THEN registers[Vx(word)] ELSE delayTimer)
          /\ soundTimer' = Tick(IF sets(24) THEN registers[Vx(word)] ELSE soundTimer)]_vars

\* C17: a step on wait-key Vx (Fx0A) at address A with no key pressed ends
\* with pc = A, the registers unchanged and the timers ticked; with a key
\* pressed it ends with Vx = the lowest pressed key and pc = A + 2.
C17_WaitKeyStep ==
  [][(handler' = "Cycle" /\ pc + 1 < MEMORY_SIZE
        /\ WordAt(pc) \div 4096 = 15 /\ Byte(WordAt(pc)) = 10) =>
       LET pressed == {k \in 0..(NUM_KEYS - 1) : keypad[k] # 0}
           lowest == CHOOSE k \in pressed : \A j \in pressed : k <= j
       IN IF pressed = {}
            THEN /\ pc' = pc
                 /\ registers' = registers
                 /\ delayTimer' = Tick(delayTimer)
                 /\ soundTimer' = Tick(soundTimer)
            ELSE /\ pc' = pc + 2
                 /\ registers' = [registers EXCEPT ![Vx(WordAt(pc))] = lowest]]_vars

\* C18: a step at address A ends with pc = nnn for jump 1nnn, nnn + V0 for
\* jump-offset Bnnn, A + 4 for a skip whose condition holds and A + 2 for one
\* whose condition fails, and A + 2 for every other word but call, return and
\* wait-key.
C18_StepProgramCounter ==
  [][(handler' = "Cycle" /\ pc + 1 < MEMORY_SIZE) =>
       LET word == WordAt(pc)
           first == word \div 4096
           x == registers[Vx(word)]
           y == registers[Vy(word)]
           skip(cond) == IF cond THEN pc + 4 ELSE pc + 2
       IN CASE first = 1 -> pc' = Address(word)
            [] first = 11 -> pc' = Address(word) + registers[0]
            [] first = 3 -> pc' = skip(x = Byte(word))
            [] first = 4 -> pc' = skip(x # Byte(word))
            [] first = 5 -> pc' = skip(x = y)
            [] first = 9 -> pc' = skip(x # y)
            [] first = 14 /\ Byte(word) = 158 -> x < NUM_KEYS /\ pc' = skip(keypad[x] # 0)
            [] first = 14 /\ Byte(word) = 161 -> x < NUM_KEYS /\ pc' = skip(keypad[x] = 0)
            [] first = 2 \/ word = 238 -> TRUE
            [] first = 15 /\ Byte(word) = 10 -> TRUE
            [] OTHER -> pc' = pc + 2]_vars

----------------------------------------------------------------------------
\* The handlers that read the keypad.

\* keypad[key] for a uint8_t key.  keypad has NUM_KEYS entries; the byte after
\* them is padding (pad), and the bytes from keypad[17] on are those of the
\* framebuffer, four to a cell, lowest first.
KeyByte(key, pad) ==
  IF key < NUM_KEYS THEN keypad[key]
  ELSE IF key = NUM_KEYS THEN pad
  ELSE LET b == key - NUM_KEYS - 1
           shifted == [k \in 0..3 |-> IF k = 0 THEN video[b \div 4]
                                      ELSE IF k = 1 THEN video[b \div 4] \div 256
                                      ELSE IF k = 2 THEN video[b \div 4] \div 65536
                                      ELSE video[b \div 4] \div 16777216]
       IN shifted[b % 4] % 256

\* Ex9E: SKP Vx
OP_Ex9E(op) ==
  /\ Enter("OP_Ex9E", op)
  /\ LET key == registers[Vx(op)]
     IN /\ \E pad \in OutOfRangeBytes :
             pc' = IF KeyByte(key, pad) # 0 THEN U16(pc + 2) ELSE pc
        /\ ub' = (key >= NUM_KEYS)
  /\ UNCHANGED << registers, memory, index, stack, sp, delayTimer, soundTimer, keypad, video, pending, videoBefore >>

\* ExA1: SKNP Vx
OP_ExA1(op) ==
  /\ Enter("OP_ExA1", op)
  /\ LET key == registers[Vx(op)]
     IN /\ \E pad \in OutOfRangeBytes :
             pc' = IF KeyByte(key, pad) = 0 THEN U16(pc + 2) ELSE pc
        /\ ub' = (key >= NUM_KEYS)
  /\ UNCHANGED << registers, memory, index, stack, sp, delayTimer, soundTimer, keypad, video, pending, videoBefore >>

\* The if / else-if chain of OP_Fx0A from keypad[k] on: the first k with
\* keypad[k] set, NUM_KEYS if the chain reaches its final else.
RECURSIVE FirstKey(_)
FirstKey(k) ==
  IF k = NUM_KEYS THEN NUM_KEYS
  ELSE IF keypad[k] # 0 THEN k
  ELSE FirstKey(k + 1)

\* Fx0A: LD Vx, K
OP_Fx0A(op) ==
  /\ Enter("OP_Fx0A", op)
  /\ IF FirstKey(0) < NUM_KEYS
       THEN /\ registers' = [registers EXCEPT ![Vx(op)] = FirstKey(0)]
            /\ pc' = pc
       ELSE /\ pc' = U16(pc - 2)
            /\ UNCHANGED registers
  /\ UNCHANGED << memory, index, stack, sp, delayTimer, soundTimer, keypad, video, ub, pending, videoBefore >>

\* What the storage of the object holds before the constructor runs: zero
\* bytes or bytes of 0xFF.
StorageBytes == {0, 255}

\* Values of the key register V0, and the sets of keys held down.
KeyVals == {0, 3, 15, 16, 17, 200}
KeyPads == { {}, {3}, {3, 7} }

\* Registers used as Vx.
KeyIdx == {0, 1}

MaxKeySteps == 2

\* 0xE000 | x << 8 | kk
KeyWord(x, kk) == 57344 + x * 256 + kk

InitKeys ==
  /\ \E fill \in StorageBytes, key \in KeyVals, down \in KeyPads :
       LET wide == fill * 257
       IN Constructed([r \in 0..(NUM_REGISTERS - 1) |-> IF r = 0 THEN key ELSE fill],
                      [a \in 0..(MEMORY_SIZE - 1) |-> fill],
                      wide,
                      [i \in 0..(STACK_SIZE - 1) |-> wide],
                      fill, fill, fill,
                      [k \in 0..(NUM_KEYS - 1) |-> IF k \in down THEN 1 ELSE 0],
                      [c \in 0..(VIDEO_WIDTH * VIDEO_HEIGHT - 1) |->
                         IF fill = 0 THEN 0 ELSE PIXEL_ON],
                      wide)
  /\ budget = MaxKeySteps

NextKeys ==
  \/ \E x \in KeyIdx : OP_Ex9E(KeyWord(x, 158))
  \/ \E x \in KeyIdx : OP_ExA1(KeyWord(x, 161))
  \/ \E x \in KeyIdx : OP_Fx0A(MemWord(x, 10))

SpecKeys == InitKeys /\ [][NextKeys]_vars

\* C15: after initialisation every register, both timers, every key, every
\* stack slot and every framebuffer cell is 0, memory is 0 outside the font
\* and holds the font at 0x50..0x9F, pc is 0x200, sp is 0 and I is 0.
C15_ConstructedIsReset ==
  handler = "Chip8" =>
    /\ registers = ZeroRegisters
    /\ delayTimer = 0
    /\ soundTimer = 0
    /\ stack = ZeroStack
    /\ video = ZeroVideo
    /\ memory = [a \in 0..(MEMORY_SIZE - 1) |->
                   IF a >= FONTSET_START_ADDRESS /\ a < FONTSET_START_ADDRESS + FONTSET_SIZE
                     THEN fontset[a - FONTSET_START_ADDRESS + 1]
                     ELSE 0]
    /\ pc = START_ADDRESS
    /\ sp = 0
    /\ index = 0

\* C20: skip-key-pressed and skip-key-not-pressed read no keypad entry
\* outside 0..15, whatever Vx holds, and no handler writes the keypad.
C20_KeypadReadInBounds ==
  [][(handler' \in {"OP_Ex9E", "OP_ExA1"} => ~ub') /\ keypad' = keypad]_vars

====
